---- MODULE Spec2Model ----
(***************************************************************************)
(* The two caches of loris: InfoCache (src/loris/img_infocache.py), an     *)
(* OrderedDict in memory over info.json / profile.icc files on disk, and   *)
(* ImageCache (src/loris/imgcache.py), a directory of derivative files in  *)
(* which non-canonical request paths are symlinks to canonical ones.       *)
(*                                                                         *)
(* SpecInfo exercises one InfoCache over its cache root, SpecImg one       *)
(* ImageCache over its cache root (SpecImgReserved: as its callers use it, *)
(* SpecLru: an InfoCache with room for three requests).  There every       *)
(* handler is one atomic action (one calling thread) and `last` records    *)
(* the call that was made last and what it returned or raised.             *)
(* SpecInfoMT and SpecImgMT run the handlers from two threads or workers,  *)
(* one statement per step.                                                 *)
(***************************************************************************)
EXTENDS Naturals, Sequences, FiniteSets

\* ---- bounds of the model ------------------------------------------------
MaxSize == 2        \* largest `size` an InfoCache is constructed with
MaxPayload == 1     \* distinct descriptive payloads of an ImageInfo
MaxProfile == 1     \* distinct non-empty color profiles
MaxClock == 1       \* times the file-system clock advances
MaxBytes == 1       \* distinct derivative file contents
MaxCalls == 3       \* calls the threads or workers of a run make in all

VARIABLES
    size,           \* InfoCache.size
    dict,           \* InfoCache._dict, oldest entry first
    disk,           \* the info cache root: per request its directory and files
    clock,          \* the file system's clock (source of st_mtime)
    latest,         \* history: the ImageInfo last put (one caller at a time)
    nodes,          \* the image cache root: what is at each file path
    dirs,           \* the image cache root: the directories that exist
    last,           \* history: the last call, its arguments and its outcome
    recency,        \* history: requests put or hydrated, least recent first
    th,             \* per thread: the call it is in and where it is in it
    lock,           \* InfoCache._lock: 0 when free, else the holding thread
    calls,          \* history: calls begun by the threads
    given,          \* history: per request, the ImageInfos handed to put
    wk              \* per image-cache worker: its call and where it is in it

vars ==
    <<size, dict, disk, clock, latest, nodes, dirs, last, recency,
      th, lock, calls, given, wk>>
threadVars == <<th, lock, calls, given, wk>>
infoVars == <<size, dict, disk, latest>>
imgVars == <<nodes, dirs>>

\* The info requests: two URLs with different info.json paths.
Requests == {"A", "B"}
Payloads == 1..MaxPayload
Profiles == 0..MaxProfile          \* 0: color_profile_bytes is None or empty
Infos == [payload : Payloads, profile : Profiles]
NoInfo == [payload |-> 0, profile |-> 0]

\* ---- what a call returned, and the record of a call ----------------------
None == [some |-> FALSE, info |-> NoInfo, lastmod |-> 0, path |-> ""]
InfoAndLastmod(info, lastmod) ==
    [some |-> TRUE, info |-> info, lastmod |-> lastmod, path |-> ""]
PathAndLastmod(fp, lastmod) ==
    [some |-> TRUE, info |-> NoInfo, lastmod |-> lastmod, path |-> fp]
Bool(b) == [some |-> b, info |-> NoInfo, lastmod |-> 0, path |-> ""]

\* op, its request, the ImageInfo it was given, arg (the path given to
\* ImageCache.__setitem__; for InfoCache.get where the entry was found, "mem"
\* or "fs"), what it returned and the exception it raised.  A get also records
\* (after, afterArg): the call made just before it and that call's arg, when
\* that call was a __setitem__ with the same request.
IsGet(op) == op = "get" \/ op = "img_get"
IsSetitem(op) == op = "setitem" \/ op = "img_setitem"
FollowsPut(op, req) == IsGet(op) /\ IsSetitem(last.op) /\ last.req = req
Call(op, req, info, arg, ret, err) ==
    [op |-> op, req |-> req, info |-> info, arg |-> arg, ret |-> ret,
     err |-> err,
     after |-> IF FollowsPut(op, req) THEN last.op ELSE "",
     afterArg |-> IF FollowsPut(op, req) THEN last.arg ELSE ""]
NoCall ==
    [op |-> "", req |-> "", info |-> NoInfo, arg |-> "", ret |-> None,
     err |-> "", after |-> "", afterArg |-> ""]

\* ---- keys of InfoCache._dict ---------------------------------------------
\* The map is keyed with request.url; OrderedDict(last=False) is born with
\* the keyword argument as an entry; __delitem__ indexes with the request.
UrlKey(r) == [kind |-> "url", id |-> r]
RequestKey(r) == [kind |-> "request", id |-> r]
LastKey == [kind |-> "kwarg", id |-> "last"]
Entry(k, info, lastmod) == [key |-> k, info |-> info, lastmod |-> lastmod]

\* ---- collections.OrderedDict --------------------------------------------
Keys(d) == {d[i].key : i \in 1..Len(d)}
IndexOf(d, k) == CHOOSE i \in 1..Len(d) : d[i].key = k
od_get(d, k) ==
    IF k \in Keys(d)
    THEN InfoAndLastmod(d[IndexOf(d, k)].info, d[IndexOf(d, k)].lastmod)
    ELSE None
od_set(d, k, info, lastmod) ==
    IF k \in Keys(d)
    THEN [d EXCEPT ![IndexOf(d, k)] = Entry(k, info, lastmod)]
    ELSE Append(d, Entry(k, info, lastmod))
od_del(d, k) == SelectSeq(d, LAMBDA e : e.key # k)
RECURSIVE PopWhileFull(_, _)
PopWhileFull(d, n) ==
    IF Len(d) >= n /\ Len(d) > 0 THEN PopWhileFull(Tail(d), n) ELSE d

InitialDict == <<Entry(LastKey, NoInfo, 0)>>

\* ---- ImageInfo.to_json / ImageInfo.from_json ------------------------------
\* The JSON text carries the descriptive payload; color_profile_bytes is not
\* part of it (get attaches it from the sidecar after from_json).
to_json(info) == <<info.payload>>
from_json(text) == [payload |-> text[1], profile |-> 0]

\* ---- the info cache root ------------------------------------------------
NoDir == [dir |-> FALSE, json |-> <<>>, mtime |-> 0, icc |-> 0]
info_exists(r) == disk[r].mtime # 0
icc_exists(r) == disk[r].icc # 0

\* InfoCache.__setitem__
WriteInfo(r, info) ==
    [disk EXCEPT ![r] = [dir |-> TRUE, json |-> to_json(info), mtime |-> clock,
                         icc |-> IF info.profile # 0 THEN info.profile ELSE @.icc]]
InsertEvicting_StaleLastmod(d, k, info, lastmod) ==
    od_set(PopWhileFull(d, size), k, info, disk[k.id].mtime)
InsertEvicting(d, k, info, lastmod) ==
    od_set(PopWhileFull(d, size), k, info, lastmod)
InfoCache_setitem(r, info) ==
    /\ disk' = WriteInfo(r, info)
    /\ dict' = InsertEvicting(dict, UrlKey(r), info, disk'[r].mtime)
    /\ latest' = [latest EXCEPT ![r] = info]
    /\ last' = Call("setitem", r, info, "", None, "")
    /\ UNCHANGED <<size, clock, imgVars>>

\* InfoCache.get
Hydrated(r) ==
    [payload |-> from_json(disk[r].json).payload,
     profile |-> IF icc_exists(r) THEN disk[r].icc ELSE 0]
Hydrate(d, k, info, lastmod) == od_set(d, k, info, lastmod)
InfoCache_get(r) ==
    /\ IF od_get(dict, UrlKey(r)).some
       THEN /\ last' = Call("get", r, NoInfo, "mem", od_get(dict, UrlKey(r)), "")
            /\ dict' = dict
       ELSE IF info_exists(r)
       THEN /\ last' = Call("get", r, NoInfo, "fs",
                            InfoAndLastmod(Hydrated(r), disk[r].mtime), "")
            /\ dict' = Hydrate(dict, UrlKey(r), Hydrated(r), disk[r].mtime)
       ELSE /\ last' = Call("get", r, NoInfo, "", None, "")
            /\ dict' = dict
    /\ UNCHANGED <<size, disk, clock, latest, imgVars>>

\* InfoCache.has_key, InfoCache.__contains__
has_key_InMemory(r) == UrlKey(r) \in Keys(dict)
has_key(r) == info_exists(r)
InfoCache_contains(r) ==
    /\ last' = Call("contains", r, NoInfo, "", Bool(has_key(r)), "")
    /\ UNCHANGED <<infoVars, clock, imgVars>>

\* InfoCache.__delitem__
DelKey(r) == RequestKey(r)
InfoCache_delitem_Silent(r) ==
    /\ last' = Call("delitem", r, NoInfo, "", None, "")
    /\ dict' = od_del(dict, DelKey(r))
    /\ disk' = [disk EXCEPT ![r].json = <<>>, ![r].mtime = 0, ![r].icc = 0]
    /\ UNCHANGED <<size, clock, latest, imgVars>>
InfoCache_delitem(r) ==
    /\ IF DelKey(r) \notin Keys(dict)
       THEN /\ last' = Call("delitem", r, NoInfo, "", None, "KeyError")
            /\ UNCHANGED <<dict, disk>>
       ELSE IF ~info_exists(r)
       THEN /\ last' = Call("delitem", r, NoInfo, "", None, "OSError")
            /\ dict' = od_del(dict, DelKey(r))
            /\ disk' = disk
       ELSE /\ last' = Call("delitem", r, NoInfo, "", None, "AttributeError")
            /\ dict' = od_del(dict, DelKey(r))
            /\ disk' = [disk EXCEPT ![r].json = <<>>, ![r].mtime = 0]
    /\ UNCHANGED <<size, clock, latest, imgVars>>

\* InfoCache.__init__: another instance is constructed over the same root
InfoCache_init ==
    /\ dict' = InitialDict
    /\ last' = Call("init", "", NoInfo, "", None, "")
    /\ UNCHANGED <<size, disk, clock, latest, imgVars>>

\* time passes on the file system
Tick ==
    /\ clock <= MaxClock
    /\ clock' = clock + 1
    /\ UNCHANGED <<infoVars, imgVars, last>>

\* ---- the image cache root -------------------------------------------------
\* Image requests: C is canonical; R is another spelling of C; D is a second
\* canonical request.  as_path / canonical_as_path are joined to cache_root.
ImageRequests == {"C", "R", "D"}
Paths == {"pc", "pr", "pd"}
as_path(q) == IF q = "C" THEN "pc" ELSE IF q = "R" THEN "pr" ELSE "pd"
canonical_as_path(q) == IF q = "D" THEN "pd" ELSE "pc"
is_canonical(q) == q # "R"
dirname(fp) == IF fp = "pr" THEN "dr" ELSE "dc"

Bytes == 1..MaxBytes
NoNode == [kind |-> "none", bytes |-> 0, mtime |-> 0, target |-> ""]
File(b, t) == [kind |-> "file", bytes |-> b, mtime |-> t, target |-> ""]
Link(source) == [kind |-> "link", bytes |-> 0, mtime |-> 0, target |-> source]

\* os.path.realpath: follow links; a link met twice is a loop and is returned
RECURSIVE FollowLinks(_, _)
FollowLinks(fp, seen) ==
    IF nodes[fp].kind # "link" \/ fp \in seen THEN fp
    ELSE FollowLinks(nodes[fp].target, seen \cup {fp})
realpath(fp) == FollowLinks(fp, {})
\* os.path.exists (follows links), os.path.lexists, os.path.getmtime
exists(fp) == nodes[realpath(fp)].kind = "file"
lexists(fp) == nodes[fp].kind # "none"
getmtime(fp) == nodes[realpath(fp)].mtime

get_request_cache_path_Unresolved(q) == as_path(q)
get_request_cache_path(q) == realpath(as_path(q))
get_canonical_cache_path(q) == realpath(canonical_as_path(q))

\* ImageCache._link: the file system after _link(source, link_name)
link_nodes_NoCircularCheck(source, link_name) ==
    [nodes EXCEPT ![link_name] = Link(source)]
link_nodes_Copy(source, link_name) ==
    IF source = link_name THEN nodes
    ELSE [nodes EXCEPT ![link_name] = nodes[source]]
link_nodes(source, link_name) ==
    IF source = link_name THEN nodes
    ELSE [nodes EXCEPT ![link_name] = Link(source)]
link_dirs(source, link_name) ==
    IF source = link_name THEN dirs
    ELSE dirs \cup {dirname(link_name)}

\* ImageCache.__setitem__
ImageCache_setitem_AnyRequest(q, canonical_fp) ==
    /\ nodes' = link_nodes(canonical_fp, get_request_cache_path(q))
    /\ dirs' = link_dirs(canonical_fp, get_request_cache_path(q))
    /\ last' = Call("img_setitem", q, NoInfo, canonical_fp, None, "")
    /\ UNCHANGED <<infoVars, clock>>
ImageCache_setitem(q, canonical_fp) ==
    /\ IF ~is_canonical(q)
       THEN /\ nodes' = link_nodes(canonical_fp, get_request_cache_path(q))
            /\ dirs' = link_dirs(canonical_fp, get_request_cache_path(q))
       ELSE UNCHANGED <<nodes, dirs>>
    /\ last' = Call("img_setitem", q, NoInfo, canonical_fp, None, "")
    /\ UNCHANGED <<infoVars, clock>>

\* ImageCache.get: getmtime is called before the existence test
ImageCache_get(q) ==
    /\ last' = IF ~exists(get_request_cache_path(q))
               THEN Call("img_get", q, NoInfo, "", None, "OSError")
               ELSE Call("img_get", q, NoInfo, "",
                         PathAndLastmod(get_request_cache_path(q),
                                        getmtime(get_request_cache_path(q))), "")
    /\ UNCHANGED <<infoVars, imgVars, clock>>

\* ImageCache.create_dir_and_return_file_path (reserve)
create_dir_and_return_file_path(q) ==
    /\ dirs' = dirs \cup {dirname(get_canonical_cache_path(q))}
    /\ last' = Call("reserve", q, NoInfo, "",
                    PathAndLastmod(get_canonical_cache_path(q), 0), "")
    /\ UNCHANGED <<infoVars, nodes, clock>>

\* the transformer writes the derivative to the path reserve returned
Transform(b) ==
    /\ last.op = "reserve"
    /\ nodes[last.ret.path].kind # "link"
    /\ nodes' = [nodes EXCEPT ![last.ret.path] = File(b, clock)]
    /\ last' = Call("transform", last.req, NoInfo, last.ret.path, None, "")
    /\ UNCHANGED <<infoVars, dirs, clock>>

\* ---- InfoCache called from several threads -------------------------------
\* Each thread runs one call at a time, one statement of the handler per step;
\* th[t].pc is the statement it is about to run.  A finished call leaves its
\* outcome in th[t] (some, info, lastmod: what get returned; err: the
\* exception).  raced: a get read the info file or the sidecar while another
\* thread had opened the same info file in a put and not yet written its
\* sidecar.
Threads == {1, 2}
ThreadInfos == [payload : 1..(MaxPayload + 1), profile : Profiles]
Idle ==
    [pc |-> "idle", op |-> "", req |-> "", info |-> NoInfo, lastmod |-> 0,
     some |-> FALSE, err |-> "", raced |-> FALSE]
Begin(t, op, r, info, pc) ==
    /\ th[t].pc = "idle"
    /\ calls < MaxCalls
    /\ calls' = calls + 1
    /\ th' = [th EXCEPT ![t] = [Idle EXCEPT !.pc = pc, !.op = op, !.req = r,
                                            !.info = info]]
At(t, pc) == th[t].pc = pc
Goto(t, pc) == th' = [th EXCEPT ![t].pc = pc]
Return(t, some, info, lastmod, err) ==
    th' = [th EXCEPT ![t].pc = "idle", ![t].some = some, ![t].info = info,
                     ![t].lastmod = lastmod, ![t].err = err]
InPutWindow(t, r) ==
    \E u \in Threads \ {t} :
        th[u].req = r /\ th[u].pc \in {"put_write", "put_icc"}
fsVars == <<size, clock, latest, last, recency, imgVars, wk>>

\* InfoCache.__setitem__, statement by statement
put_isdir(t, r, info) ==
    /\ Begin(t, "put", r, info,
             IF disk[r].dir THEN "put_open" ELSE "put_makedirs")
    /\ given' = [given EXCEPT ![r] = @ \cup {info}]
    /\ UNCHANGED <<dict, disk, lock, fsVars>>
put_makedirs(t) ==
    /\ At(t, "put_makedirs")
    /\ disk' = [disk EXCEPT ![th[t].req].dir = TRUE]
    /\ Goto(t, "put_open")
    /\ UNCHANGED <<dict, lock, calls, given, fsVars>>
put_open(t) ==
    /\ At(t, "put_open")
    /\ disk' = [disk EXCEPT ![th[t].req].json = <<>>,
                            ![th[t].req].mtime = clock]
    /\ Goto(t, "put_write")
    /\ UNCHANGED <<dict, lock, calls, given, fsVars>>
put_write(t) ==
    /\ At(t, "put_write")
    /\ disk' = [disk EXCEPT ![th[t].req].json = to_json(th[t].info),
                            ![th[t].req].mtime = clock]
    /\ Goto(t, IF th[t].info.profile # 0 THEN "put_icc" ELSE "put_getmtime")
    /\ UNCHANGED <<dict, lock, calls, given, fsVars>>
put_icc(t) ==
    /\ At(t, "put_icc")
    /\ disk' = [disk EXCEPT ![th[t].req].icc = th[t].info.profile]
    /\ Goto(t, "put_getmtime")
    /\ UNCHANGED <<dict, lock, calls, given, fsVars>>
put_getmtime(t) ==
    /\ At(t, "put_getmtime")
    /\ th' = [th EXCEPT ![t].lastmod = disk[th[t].req].mtime,
                        ![t].pc = "put_acquire"]
    /\ UNCHANGED <<dict, disk, lock, calls, given, fsVars>>
put_acquire(t) ==
    /\ At(t, "put_acquire")
    /\ lock = 0
    /\ lock' = t
    /\ Goto(t, "put_locked")
    /\ UNCHANGED <<dict, disk, calls, given, fsVars>>
put_popitem(t) ==
    /\ At(t, "put_locked")
    /\ Len(dict) >= size /\ Len(dict) > 0
    /\ dict' = Tail(dict)
    /\ UNCHANGED <<th, disk, lock, calls, given, fsVars>>
put_insert(t) ==
    /\ At(t, "put_locked")
    /\ Len(dict) < size
    /\ dict' = od_set(dict, UrlKey(th[t].req), th[t].info, th[t].lastmod)
    /\ lock' = 0
    /\ Return(t, FALSE, th[t].info, th[t].lastmod, "")
    /\ UNCHANGED <<disk, calls, given, fsVars>>

\* InfoCache.get, statement by statement
get_acquire(t, r) ==
    /\ Begin(t, "get", r, NoInfo, "get_lookup")
    /\ lock = 0
    /\ lock' = t
    /\ UNCHANGED <<dict, disk, given, fsVars>>
get_lookup(t) ==
    /\ At(t, "get_lookup")
    /\ lock' = 0
    /\ IF od_get(dict, UrlKey(th[t].req)).some
       THEN Return(t, TRUE, od_get(dict, UrlKey(th[t].req)).info,
                   od_get(dict, UrlKey(th[t].req)).lastmod, "")
       ELSE Goto(t, "get_exists")
    /\ UNCHANGED <<dict, disk, calls, given, fsVars>>
get_exists(t) ==
    /\ At(t, "get_exists")
    /\ IF info_exists(th[t].req)
       THEN Goto(t, "get_from_json")
       ELSE Return(t, FALSE, NoInfo, 0, "")
    /\ UNCHANGED <<dict, disk, lock, calls, given, fsVars>>
get_from_json(t) ==
    /\ At(t, "get_from_json")
    /\ IF disk[th[t].req].json = <<>>
       THEN th' = [th EXCEPT ![t].pc = "idle", ![t].err = "ValueError",
                            ![t].raced = InPutWindow(t, th[t].req)]
       ELSE th' = [th EXCEPT ![t].pc = "get_icc",
                            ![t].info = from_json(disk[th[t].req].json),
                            ![t].raced = InPutWindow(t, th[t].req)]
    /\ UNCHANGED <<dict, disk, lock, calls, given, fsVars>>
get_icc(t) ==
    /\ At(t, "get_icc")
    /\ th' = [th EXCEPT ![t].pc = "get_getmtime",
                        ![t].info.profile = disk[th[t].req].icc,
                        ![t].raced = @ \/ InPutWindow(t, th[t].req)]
    /\ UNCHANGED <<dict, disk, lock, calls, given, fsVars>>
get_getmtime(t) ==
    /\ At(t, "get_getmtime")
    /\ th' = [th EXCEPT ![t].lastmod = disk[th[t].req].mtime,
                        ![t].pc = "get_hydrate"]
    /\ UNCHANGED <<dict, disk, lock, calls, given, fsVars>>
get_hydrate(t) ==
    /\ At(t, "get_hydrate")
    /\ dict' = Hydrate(dict, UrlKey(th[t].req), th[t].info, th[t].lastmod)
    /\ Return(t, TRUE, th[t].info, th[t].lastmod, "")
    /\ UNCHANGED <<disk, lock, calls, given, fsVars>>

\* InfoCache.__delitem__: the del under the lock; with the request as key it
\* raises KeyError and the with block releases the lock
del_acquire(t, r) ==
    /\ Begin(t, "delete", r, NoInfo, "del_del")
    /\ lock = 0
    /\ lock' = t
    /\ UNCHANGED <<dict, disk, given, fsVars>>
del_del(t) ==
    /\ At(t, "del_del")
    /\ DelKey(th[t].req) \notin Keys(dict)
    /\ lock' = 0
    /\ Return(t, FALSE, NoInfo, 0, "KeyError")
    /\ UNCHANGED <<dict, disk, calls, given, fsVars>>

\* ---- ImageCache called from several workers ------------------------------
\* Workers are threads or processes over one cache root; each runs one call at
\* a time, one file-system call per step.  wk[w].pc is the statement it is
\* about to run; a finished call leaves err, the exception it raised, and at,
\* the statement that raised it.
Workers == {1, 2}
Resting ==
    [pc |-> "idle", op |-> "", req |-> "", source |-> "", link_name |-> "",
     err |-> "", at |-> ""]
Starts(w) == wk[w].pc = "idle" /\ calls < MaxCalls /\ calls' = calls + 1
Returns(w) == wk' = [wk EXCEPT ![w].pc = "idle"]
Raises(w, err, at) ==
    wk' = [wk EXCEPT ![w].pc = "idle", ![w].err = err, ![w].at = at]
infoCacheVars == <<infoVars, clock, last, recency, th, lock, given>>

\* ImageCache.__setitem__: the request's path is resolved, then _link
setitem_realpath(w, q, canonical_fp) ==
    /\ Starts(w)
    /\ wk' = [wk EXCEPT ![w] =
                 [Resting EXCEPT
                    !.op = "put", !.req = q, !.source = canonical_fp,
                    !.link_name = IF is_canonical(q) THEN ""
                                  ELSE get_request_cache_path(q),
                    !.pc = IF is_canonical(q) THEN "idle" ELSE "link_check"]]
    /\ UNCHANGED <<nodes, dirs, infoCacheVars>>
link_check(w) ==
    /\ wk[w].pc = "link_check"
    /\ wk' = [wk EXCEPT ![w].pc =
                 IF wk[w].source = wk[w].link_name THEN "idle"
                 ELSE IF dirname(wk[w].link_name) \in dirs THEN "link_lexists"
                 ELSE "link_makedirs"]
    /\ UNCHANGED <<nodes, dirs, calls, infoCacheVars>>
link_makedirs(w) ==
    /\ wk[w].pc = "link_makedirs"
    /\ IF dirname(wk[w].link_name) \in dirs
       THEN Raises(w, "OSError", "makedirs") /\ dirs' = dirs
       ELSE /\ dirs' = dirs \cup {dirname(wk[w].link_name)}
            /\ wk' = [wk EXCEPT ![w].pc = "link_lexists"]
    /\ UNCHANGED <<nodes, calls, infoCacheVars>>
link_lexists(w) ==
    /\ wk[w].pc = "link_lexists"
    /\ wk' = [wk EXCEPT ![w].pc =
                 IF lexists(wk[w].link_name) THEN "link_unlink"
                 ELSE "link_symlink"]
    /\ UNCHANGED <<nodes, dirs, calls, infoCacheVars>>
link_unlink(w) ==
    /\ wk[w].pc = "link_unlink"
    /\ IF ~lexists(wk[w].link_name)
       THEN Raises(w, "OSError", "unlink") /\ nodes' = nodes
       ELSE /\ nodes' = [nodes EXCEPT ![wk[w].link_name] = NoNode]
            /\ wk' = [wk EXCEPT ![w].pc = "link_symlink"]
    /\ UNCHANGED <<dirs, calls, infoCacheVars>>
link_symlink(w) ==
    /\ wk[w].pc = "link_symlink"
    /\ IF lexists(wk[w].link_name)
       THEN Raises(w, "OSError", "symlink") /\ nodes' = nodes
       ELSE /\ nodes' = [nodes EXCEPT ![wk[w].link_name] = Link(wk[w].source)]
            /\ Returns(w)
    /\ UNCHANGED <<dirs, calls, infoCacheVars>>

\* ImageCache.create_dir_and_return_file_path: makedirs, EEXIST passed over;
\* then the transformer writes the derivative to the path returned
reserve_makedirs(w, q) ==
    /\ Starts(w)
    /\ dirs' = dirs \cup {dirname(get_canonical_cache_path(q))}
    /\ wk' = [wk EXCEPT ![w] =
                 [Resting EXCEPT !.op = "reserve", !.req = q,
                                 !.source = get_canonical_cache_path(q),
                                 !.pc = "transform"]]
    /\ UNCHANGED <<nodes, infoCacheVars>>
transform_write(w, b) ==
    /\ wk[w].pc = "transform"
    /\ nodes' = [nodes EXCEPT ![realpath(wk[w].source)] = File(b, clock)]
    /\ Returns(w)
    /\ UNCHANGED <<dirs, calls, infoCacheVars>>

Init ==
    /\ size \in 1..MaxSize
    /\ dict = InitialDict
    /\ disk = [r \in Requests |-> NoDir]
    /\ clock = 1
    /\ latest = [r \in Requests |-> NoInfo]
    /\ nodes = [fp \in Paths |-> NoNode]
    /\ dirs = {}
    /\ last = NoCall
    /\ recency = <<>>
    /\ th = [t \in Threads |-> Idle]
    /\ lock = 0
    /\ calls = 0
    /\ given = [r \in Requests |-> {}]
    /\ wk = [w \in Workers |-> Resting]

\* one caller at a time: no thread or worker is inside a call
Alone == UNCHANGED <<recency, threadVars>>

NextInfo ==
    \/ \E r \in Requests, info \in Infos : InfoCache_setitem(r, info) /\ Alone
    \/ \E r \in Requests : InfoCache_get(r) /\ Alone
    \/ \E r \in Requests : InfoCache_contains(r) /\ Alone
    \/ \E r \in Requests : InfoCache_delitem(r) /\ Alone
    \/ InfoCache_init /\ Alone
    \/ Tick /\ Alone

NextImg ==
    \/ \E q \in ImageRequests, fp \in Paths :
          ImageCache_setitem(q, fp) /\ Alone
    \/ \E q \in ImageRequests : ImageCache_get(q) /\ Alone
    \/ \E q \in ImageRequests : create_dir_and_return_file_path(q) /\ Alone
    \/ \E b \in Bytes : Transform(b) /\ Alone
    \/ Tick /\ Alone

\* the image cache used as its callers use it: put is given the path that
\* reserve returns for the same request
NextImgReserved ==
    \/ \E q \in ImageRequests :
          ImageCache_setitem(q, get_canonical_cache_path(q)) /\ Alone
    \/ \E q \in ImageRequests : ImageCache_get(q) /\ Alone
    \/ \E q \in ImageRequests : create_dir_and_return_file_path(q) /\ Alone
    \/ \E b \in Bytes : Transform(b) /\ Alone
    \/ Tick /\ Alone

SpecInfo == Init /\ [][NextInfo]_vars
SpecImg == Init /\ [][NextImg]_vars
SpecImgReserved == Init /\ [][NextImgReserved]_vars

NextInfoMT ==
    \/ \E t \in Threads, r \in Requests, info \in ThreadInfos :
          put_isdir(t, r, info)
    \/ \E t \in Threads : put_makedirs(t)
    \/ \E t \in Threads : put_open(t)
    \/ \E t \in Threads : put_write(t)
    \/ \E t \in Threads : put_icc(t)
    \/ \E t \in Threads : put_getmtime(t)
    \/ \E t \in Threads : put_acquire(t)
    \/ \E t \in Threads : put_popitem(t)
    \/ \E t \in Threads : put_insert(t)
    \/ \E t \in Threads, r \in Requests : get_acquire(t, r)
    \/ \E t \in Threads : get_lookup(t)
    \/ \E t \in Threads : get_exists(t)
    \/ \E t \in Threads : get_from_json(t)
    \/ \E t \in Threads : get_icc(t)
    \/ \E t \in Threads : get_getmtime(t)
    \/ \E t \in Threads : get_hydrate(t)
    \/ \E t \in Threads, r \in Requests : del_acquire(t, r)
    \/ \E t \in Threads : del_del(t)
    \/ Tick /\ Alone
SpecInfoMT == Init /\ [][NextInfoMT]_vars

NextImgMT ==
    \/ \E w \in Workers, q \in ImageRequests, fp \in Paths :
          setitem_realpath(w, q, fp)
    \/ \E w \in Workers : link_check(w)
    \/ \E w \in Workers : link_makedirs(w)
    \/ \E w \in Workers : link_lexists(w)
    \/ \E w \in Workers : link_unlink(w)
    \/ \E w \in Workers : link_symlink(w)
    \/ \E w \in Workers, q \in ImageRequests : reserve_makedirs(w, q)
    \/ \E w \in Workers, b \in Bytes : transform_write(w, b)
    \/ Tick /\ Alone
SpecImgMT == Init /\ [][NextImgMT]_vars

\* ---- an InfoCache with room for every request ----------------------------
\* Three URLs, size up to three; `recency` follows each put and each
\* hydration by get, so its order is the order of true recency.
LruRequests == Requests \cup {"C"}
Touch(s, r) == Append(SelectSeq(s, LAMBDA x : x # r), r)
Rank(s, r) == CHOOSE i \in 1..Len(s) : s[i] = r
Lru_setitem(r, info) ==
    /\ InfoCache_setitem(r, info)
    /\ recency' = Touch(recency, r)
Lru_get(r) ==
    /\ InfoCache_get(r)
    /\ recency' = IF last'.arg = "fs" THEN Touch(recency, r) ELSE recency
InitLru ==
    /\ size \in 1..Cardinality(LruRequests)
    /\ dict = InitialDict
    /\ disk = [r \in LruRequests |-> NoDir]
    /\ clock = 1
    /\ latest = [r \in LruRequests |-> NoInfo]
    /\ nodes = [fp \in Paths |-> NoNode]
    /\ dirs = {}
    /\ last = NoCall
    /\ recency = <<>>
    /\ th = [t \in Threads |-> Idle]
    /\ lock = 0
    /\ calls = 0
    /\ given = [r \in Requests |-> {}]
    /\ wk = [w \in Workers |-> Resting]
NextLru ==
    \/ \E r \in LruRequests, info \in Infos :
          Lru_setitem(r, info) /\ UNCHANGED threadVars
    \/ \E r \in LruRequests : Lru_get(r) /\ UNCHANGED threadVars
    \/ \E r \in LruRequests : InfoCache_contains(r) /\ Alone
    \/ Tick /\ Alone
SpecLru == InitLru /\ [][NextLru]_vars

\* ==== InfoCache claims (under SpecInfo) ==================================

\* C1: put(id, r) immediately followed by get(id) returns r paired with the
\* modification time of id's info file as that put wrote it.
C1_PutThenGet ==
    (last.op = "get" /\ last.after = "setitem") =>
        /\ last.err = ""
        /\ last.ret = InfoAndLastmod(latest[last.req], disk[last.req].mtime)
C1_Witness ==
    /\ last.op = "get" /\ last.after = "setitem"
    /\ last.ret.some /\ last.ret.lastmod > 1
    /\ Len(dict) >= size

\* C2: right after a put, or a get that missed in memory and hydrated from
\* disk, the memory map holds at most `size` entries.
C2_CapacityBound ==
    (last.op = "setitem" \/ (last.op = "get" /\ last.arg = "fs")) =>
        Len(dict) <= size

\* C3: once an identity has been put, every later get of it returns the record
\* put last, in full (its color profile included, empty when it had none).
C3_GetReturnsLatestPut ==
    (last.op = "get" /\ latest[last.req] # NoInfo) =>
        /\ last.ret.some
        /\ last.ret.info = latest[last.req]

\* C4: delete(id) of an identity that was put and is in the memory map raises
\* nothing and removes the memory entry, the info file and the sidecar.
C4_DeleteRemoves ==
    [][\A r \in Requests :
          (InfoCache_delitem(r) /\ UrlKey(r) \in Keys(dict) /\ info_exists(r)) =>
              /\ last'.err = ""
              /\ UrlKey(r) \notin Keys(dict')
              /\ disk'[r].json = <<>>
              /\ disk'[r].icc = 0]_vars

\* C6: contains(id) is true exactly when id's info file exists, whether or not
\* id is in the memory map, and leaves the memory map as it was.
C6_ContainsIsDiskOnly ==
    [][\A r \in Requests :
          InfoCache_contains(r) =>
              /\ last'.err = ""
              /\ last'.ret.some <=> info_exists(r)
              /\ dict' = dict]_vars
C6_Witness ==
    /\ last.op = "contains" /\ last.ret.some
    /\ UrlKey(last.req) \notin Keys(dict)

\* ==== ImageCache claims (under SpecImg) ===================================

\* C5: get of an identity that is in no memory map and has no file at its
\* computed path returns the empty result, raises nothing, changes nothing.
C5_MissIsAValue ==
    [][/\ \A q \in ImageRequests :
             (ImageCache_get(q) /\ ~exists(get_request_cache_path(q))) =>
                 /\ last'.err = ""
                 /\ last'.ret = None
                 /\ UNCHANGED imgVars
       /\ \A r \in Requests :
             (InfoCache_get(r) /\ UrlKey(r) \notin Keys(dict) /\ ~info_exists(r)) =>
                 /\ last'.err = ""
                 /\ last'.ret = None
                 /\ UNCHANGED <<dict, disk>>]_vars
\* the InfoCache half of C5, which holds (under SpecInfo)
C5_InfoCacheHalf ==
    (last.op = "get" /\ last.arg = "") =>
        last.err = "" /\ last.ret = None

\* C7 as claimed: after put(R, P) for a written file P other than R's requested
\* path, an alias is at R's requested path and get(R) returns that alias path,
\* with a modification time, through which P's bytes are read.
C7_GetReturnsAliasPath ==
    (/\ last.op = "img_get" /\ last.after = "img_setitem"
     /\ ~is_canonical(last.req)
     /\ last.afterArg # as_path(last.req)
     /\ nodes[last.afterArg].kind = "file") =>
        /\ nodes[as_path(last.req)].kind = "link"
        /\ last.err = "" /\ last.ret.some
        /\ last.ret.path = as_path(last.req)
        /\ last.ret.lastmod = nodes[last.afterArg].mtime
        /\ nodes[realpath(last.ret.path)].bytes = nodes[last.afterArg].bytes
\* C7 as amended: get(R) returns the path the alias resolves to, P itself, with
\* P's modification time.
C7_GetReturnsResolvedPath ==
    (/\ last.op = "img_get" /\ last.after = "img_setitem"
     /\ ~is_canonical(last.req)
     /\ last.afterArg # as_path(last.req)
     /\ nodes[last.afterArg].kind = "file") =>
        /\ nodes[as_path(last.req)].kind = "link"
        /\ last.err = "" /\ last.ret.some
        /\ last.ret.path = last.afterArg
        /\ last.ret.lastmod = nodes[last.afterArg].mtime
        /\ nodes[realpath(last.ret.path)].bytes = nodes[last.afterArg].bytes
C7_Witness ==
    /\ last.op = "img_get" /\ last.after = "img_setitem"
    /\ ~is_canonical(last.req)
    /\ last.afterArg = get_canonical_cache_path(last.req)
    /\ nodes[last.afterArg].kind = "file"
    /\ nodes[as_path(last.req)] = Link(last.afterArg)
    /\ last.ret.some

\* C8: put(R, P2) where an alias at R's requested path points to P1, P2 being
\* neither P1 nor that path, leaves the alias there pointing directly to P2.
C8_StaleAliasReplaced ==
    [][\A q \in ImageRequests, fp \in Paths :
          (/\ ImageCache_setitem(q, fp) /\ ~is_canonical(q)
           /\ nodes[as_path(q)].kind = "link"
           /\ fp # nodes[as_path(q)].target /\ fp # as_path(q)) =>
              nodes'[as_path(q)] = Link(fp)]_vars

\* C9: put removes or replaces at most a link: every regular file there before
\* the put is there after it, with the same bytes.
C9_PutKeepsFiles ==
    [][\A q \in ImageRequests, fp \in Paths :
          ImageCache_setitem(q, fp) =>
              \A p \in Paths :
                  nodes[p].kind = "file" =>
                      /\ nodes'[p].kind = "file"
                      /\ nodes'[p].bytes = nodes[p].bytes]_vars

\* C10: put on an identity whose is_canonical flag is true creates no link and
\* no directory, removes nothing and raises nothing, whatever the path given.
C10_CanonicalPutIsNoOp ==
    [][\A q \in ImageRequests, fp \in Paths :
          (ImageCache_setitem(q, fp) /\ is_canonical(q)) =>
              /\ nodes' = nodes
              /\ dirs' = dirs
              /\ last'.err = ""]_vars
C10_Witness ==
    /\ last.op = "img_setitem" /\ is_canonical(last.req)
    /\ last.arg # as_path(last.req)
    /\ nodes[as_path(last.req)].kind = "file"
    /\ \E p \in Paths : nodes[p].kind = "link"

\* C11: put(S, P) for a non-canonical S whose computed requested path is P
\* creates no link (no self-referential one), changes nothing, raises nothing.
C11_DegeneratePutIsNoOp ==
    [][\A q \in ImageRequests, fp \in Paths :
          (/\ ImageCache_setitem(q, fp) /\ ~is_canonical(q)
           /\ get_request_cache_path(q) = fp) =>
              /\ nodes' = nodes
              /\ dirs' = dirs
              /\ last'.err = ""]_vars
C11_Witness ==
    /\ last.op = "img_setitem" /\ ~is_canonical(last.req)
    /\ get_request_cache_path(last.req) = last.arg
    /\ last.arg # as_path(last.req)
    /\ nodes[last.arg].kind = "file"

\* C12 (under SpecImgReserved): what is at a non-canonical requested path that
\* differs from its canonical path is nothing or a symlink to that canonical
\* path, never a regular file, and no canonical path is itself made a link.
C12_SingleCopy ==
    \A q \in ImageRequests :
        as_path(q) # canonical_as_path(q) =>
            /\ nodes[as_path(q)] \in {NoNode, Link(canonical_as_path(q))}
            /\ nodes[canonical_as_path(q)].kind \in {"none", "file"}
C12_Witness ==
    /\ nodes["pr"] = Link("pc")
    /\ nodes["pc"].kind = "file"
    /\ last.op = "img_setitem" /\ last.req = "R"

\* C14: delete(id) of an identity that is not in the memory map raises, and
\* leaves the memory map, the info file and the sidecar as they were.
C14_DeleteAbsentRaises ==
    [][\A r \in Requests :
          (InfoCache_delitem(r) /\ UrlKey(r) \notin Keys(dict)) =>
              /\ last'.err # ""
              /\ dict' = dict
              /\ disk' = disk]_vars
C14_Witness ==
    /\ last.op = "delitem" /\ last.err = "KeyError"
    /\ UrlKey(last.req) \notin Keys(dict)
    /\ info_exists(last.req) /\ icc_exists(last.req)

\* ==== eviction order (under SpecLru) =====================================

\* C16: an entry evicted by a put was put or hydrated less recently than every
\* entry the put keeps in the map (the put's own identity aside).
C16_EvictsLeastRecent ==
    [][\A r \in LruRequests, info \in Infos :
          Lru_setitem(r, info) =>
              \A e \in LruRequests \ {r}, f \in LruRequests \ {r} :
                  (/\ UrlKey(e) \in Keys(dict) /\ UrlKey(e) \notin Keys(dict')
                   /\ UrlKey(f) \in Keys(dict) /\ UrlKey(f) \in Keys(dict')) =>
                      Rank(recency, e) < Rank(recency, f)]_vars

\* ==== InfoCache under threads (under SpecInfoMT) ==========================

\* C13: an entry leaves the memory map only by a put's eviction pop that found
\* the map at capacity, and only when the put's insert would otherwise take
\* the map beyond `size` (the put's own entry, which it re-inserts, aside).
C13_EvictsOnlyWhenNeeded ==
    [][\A k \in Keys(dict) \ Keys(dict') :
          k.kind = "url" =>
              \E t \in Threads :
                  /\ put_popitem(t)
                  /\ Len(dict) >= size
                  /\ \/ k = UrlKey(th[t].req)
                     \/ Len(dict) + (IF UrlKey(th[t].req) \in Keys(dict)
                                     THEN 0 ELSE 1) > size]_vars

\* C15: a thread about to read or write the memory map holds the lock, and a
\* thread about to touch the file system does not hold it.
MapSteps == {"get_lookup", "get_hydrate", "put_locked", "del_del"}
FsSteps ==
    {"put_makedirs", "put_open", "put_write", "put_icc", "put_getmtime",
     "get_exists", "get_from_json", "get_icc", "get_getmtime"}
C15_LockDiscipline ==
    \A t \in Threads :
        /\ th[t].pc \in MapSteps => lock = t
        /\ th[t].pc \in FsSteps => lock # t

\* C18: when the last call of both threads was a put of the same request and
\* both have returned, the memory map holds for it the record in its info file
\* and that file's modification time.
C18_MemoryAgreesWithDisk ==
    \A r \in Requests :
        (\A t \in Threads :
            th[t].pc = "idle" /\ th[t].op = "put" /\ th[t].req = r) =>
            /\ UrlKey(r) \in Keys(dict)
            /\ to_json(od_get(dict, UrlKey(r)).info) = disk[r].json
            /\ od_get(dict, UrlKey(r)).lastmod = disk[r].mtime

\* C19: a get that read the info file or the sidecar while another thread was
\* inside a put of the same request raises nothing and returns a miss or a
\* record that was handed to a put of that request, color profile included.
C19_RacingGetIsClean ==
    \A t \in Threads :
        (th[t].pc = "idle" /\ th[t].op = "get" /\ th[t].raced) =>
            /\ th[t].err = ""
            /\ th[t].some => th[t].info \in given[th[t].req]

\* ==== ImageCache under workers (under SpecImgMT) ==========================

\* C17: a worker that is about to create the parent directory of an alias and
\* finds that another worker has created it since its existence check carries
\* on without raising, as reserve does when the directory is there.
C17_DirectoryRaceSwallowed ==
    [][\A w \in Workers :
          /\ (link_makedirs(w) /\ dirname(wk[w].link_name) \in dirs) =>
                 wk'[w].err = "" /\ wk'[w].pc = "link_lexists"
          /\ \A q \in ImageRequests :
                 (/\ reserve_makedirs(w, q)
                  /\ dirname(get_canonical_cache_path(q)) \in dirs) =>
                     wk'[w].err = ""]_vars
\* the InfoCache part of C17, which holds (under SpecInfoMT)
C17_InfoCacheHalf ==
    [][\A t \in Threads :
          (put_makedirs(t) /\ disk[th[t].req].dir) =>
              th'[t].err = "" /\ th'[t].pc = "put_open"]_vars

\* C20: when both workers have returned from a put of the same non-canonical
\* request with its canonical path, each having found the requested path
\* unaliased and neither having failed on the directory, neither has raised
\* and the requested path is a link to the canonical path.
C20_ConcurrentAliasSafe ==
    \A q \in ImageRequests :
        (/\ ~is_canonical(q)
         /\ \A w \in Workers :
               /\ wk[w].pc = "idle" /\ wk[w].op = "put" /\ wk[w].req = q
               /\ wk[w].source = canonical_as_path(q)
               /\ wk[w].link_name = as_path(q)
               /\ wk[w].at # "makedirs") =>
            /\ \A w \in Workers : wk[w].err = ""
            /\ nodes[as_path(q)] = Link(canonical_as_path(q))

====
